---- MODULE Spec2Model ----
(***************************************************************************)
(* Model of the handshake Verilator wrapper generator of hlt-wrapgen:      *)
(*   tools/hlt/WrapGen/HandshakeVerilatorWrapper.cpp  (init, emitPreamble, *)
(*   emitSimulator, emitExtMemPort, emitInputPort, emitOutputPort)         *)
(*   tools/hlt/WrapGen/WrapGen.cpp                    (main)               *)
(*                                                                         *)
(* The generated text is modelled as a sequence of items, one per emitted  *)
(* statement (or per partially written statement when a step fails in the  *)
(* middle of a line).  Indices are the C++ 0-based indices; sequences are  *)
(* 1-based, so position idx lives at [idx + 1].                            *)
(***************************************************************************)
EXTENDS Integers, Sequences, FiniteSets, TLC

\* ------------------------------------------------------------------ bounds
MaxArgs == 2
MaxRes == 1
MaxCount == 2
MaxAddrSigs == 2

\* getBitWidthOrSentinel's answer for a type of unknown width
Sentinel == -1

\* ------------------------------------------------------------------ state
VARIABLES
  funcOp,     \* BaseWrapper::funcOp, the builtin function being wrapped
  refOp,      \* main's refOp    (argument of wrap / init)
  kernelOp,   \* main's kernelOp (argument of wrap / init / emitPreamble)
  hsOp,       \* HandshakeVerilatorWrapper::hsOp
  firrtlOp,   \* HandshakeVerilatorWrapper::firrtlOp
  out,        \* what has been written to the output stream in this call
  result,     \* "none", "success", "failure", "abort" (assertion), "crash"
  reported,   \* the operation the diagnostic was attached to
  pc,         \* position of the driver: "main", "init", "preamble", "done"
  exitCode,   \* main's return value (-1: not returned)
  pending,    \* further calls a reusing driver makes on the same wrapper
  callNo,     \* number of the current call on this wrapper object
  history     \* the inputs and outcomes of the calls that have returned

vars == <<funcOp, refOp, kernelOp, hsOp, firrtlOp, out, result, reported, pc,
          exitCode, pending, callNo, history>>

\* ------------------------------------------------------------------ types
IntType == [k |-> "int", w |-> 32, len |-> 0]
FloatType == [k |-> "float", w |-> 32, len |-> 0]
MemRefType(n) == [k |-> "memref", w |-> 32, len |-> n]
MemLens == {4, 8}
AddrWidths == {Sentinel, 8, 16}

NullOp == [kind |-> "null"]
OtherOp == [kind |-> "other"]

\* The sentinel converted to unsigned is 2^32 - 1.  TLC's integers are 32-bit
\* signed, so the largest of them stands for it: all that the code asks of
\* the value is that it is positive and wider than every supported type.
WrappedSentinel == 2147483647

\* conversion of getBitWidthOrSentinel's int32_t to the unsigned returned
ToUnsigned(x) == IF x < 0 THEN WrappedSentinel + (1 + x) ELSE x

SeqsUpTo(S, n) == UNION {[1..m -> S] : m \in 0..n}

\* ---------------------------------------------------- type emission (4.1)
\* emitVerilatorTypeFromWidth: the target type of a bit width.
emitVerilatorTypeFromWidth(width) ==
  IF width = 0 \/ width = ToUnsigned(Sentinel)
  THEN [ok |-> FALSE, tok |-> <<"none", 0>>]
  ELSE [ok |-> TRUE, tok |-> <<"uint", width>>]

\* emitVerilatorType: the target type of a value type.
emitVerilatorType(t) ==
  IF t.k = "int" THEN emitVerilatorTypeFromWidth(t.w)
  ELSE IF t.k = "memref" /\ emitVerilatorTypeFromWidth(t.w).ok
       THEN [ok |-> TRUE, tok |-> <<"ptr", t.w>>]
       ELSE [ok |-> FALSE, tok |-> <<"none", 0>>]

\* the element type of a memref
getElementType(memref) == [k |-> "int", w |-> memref.w, len |-> 0]

\* ---------------------------------------------------------- output stream
\* e.out: the statements written so far; e.res: "ok" while the step
\* succeeds, else "failure" (LogicalResult failure), "abort" (a failed
\* assert) or "crash"
Stream0 == [out |-> <<>>, res |-> "ok"]
Put(e, item) == [e EXCEPT !.out = Append(@, item)]
Fail(e, r) == [e EXCEPT !.res = r]
\* F applied to the value of v, v evaluated once
Bind(v, F(_)) == CHOOSE y \in {F(x) : x \in {v}} : TRUE
\* a statement a failing type emission leaves unfinished
Partial(e, name) == Fail(Put(e, [op |-> "partial", port |-> name]), "failure")

\* ------------------------------------------------ hardware module access
\* the name a port of the module would have when the index is outside its
\* port list
NoPort == <<"outOfRange", 0>>

\* firrtlOp.getPortName(idx)
getPortName(fir, idx) ==
  IF fir.kind = "fmodule" /\ idx + 1 \in DOMAIN fir.ports
  THEN fir.ports[idx + 1].name ELSE NoPort

\* firrtlOp.getPortType(idx).cast<BundleType>().getElements()
getPortElements(fir, idx) ==
  IF fir.kind = "fmodule" /\ idx + 1 \in DOMAIN fir.ports
  THEN fir.ports[idx + 1].elems ELSE <<>>

\* funcOp.getNumArguments() / funcOp.getNumResults()
getNumArguments(fo) == Len(fo.args)
getNumResults(fo) == Len(fo.results)

inCtrlIdx(fo) == getNumArguments(fo)

\* variant: the control-port offset of one is left out
getResName_offByOne(fo, fir, idx) == getPortName(fir, idx + inCtrlIdx(fo))
getResName(fo, fir, idx) == getPortName(fir, idx + inCtrlIdx(fo) + 1)

getInputName(fir, idx) == getPortName(fir, idx)

\* the data signal's width as the unsigned the code stores it in
getBundleDataWidth(sig) == ToUnsigned(sig.w)

\* sig.name.startswith("ldAddr") || sig.name.startswith("stAddr")
IsAddrSig(sig) == sig.name \in {"ldAddr", "stAddr"}

\* the loop over the bundle's elements: every matching signal assigns
RECURSIVE AddrWidthLoop(_, _, _)
AddrWidthLoop(elems, k, addrWidth) ==
  IF k > Len(elems) THEN addrWidth
  ELSE AddrWidthLoop(elems, k + 1,
         IF IsAddrSig(elems[k]) THEN getBundleDataWidth(elems[k])
         ELSE addrWidth)

\* variant: the loop stops at the first matching signal
RECURSIVE AddrWidthFirst(_, _, _)
AddrWidthFirst(elems, k, addrWidth) ==
  IF k > Len(elems) THEN addrWidth
  ELSE IF IsAddrSig(elems[k]) THEN getBundleDataWidth(elems[k])
  ELSE AddrWidthFirst(elems, k + 1, addrWidth)

resolveAddrWidth_first(elems) == AddrWidthFirst(elems, 1, 0)
resolveAddrWidth(elems) == AddrWidthLoop(elems, 1, 0)

\* hsOp.getArgument(idx).getUsers(): the number of users and the first
\* user's load and store counts
NoUsers == [n |-> 0, ld |-> 0, st |-> 0]
getUsers(hs, idx) ==
  IF hs.kind = "hsfunc" /\ idx + 1 \in DOMAIN hs.users
  THEN hs.users[idx + 1] ELSE NoUsers

\* ------------------------------------------------------- statement parts
\* emitHSPortCtor: ("<prefix>", &dut-><prefix>_ready, &dut-><prefix>_valid
\* [, &dut-><prefix>_data])
emitHSPortCtor(prefix, hasData) ==
  [prefix |-> prefix, ready |-> TRUE, valid |-> TRUE, data |-> hasData]

\* emitHSTypeAssert: static_assert(is_same<type, typeof(value)>)
emitHSTypeAssert(e, type, value) ==
  Put(e, [op |-> "static_assert", alias |-> type, value |-> value])

\* "TArg" + std::to_string(idx), "TRes" + std::to_string(idx)
ArgAlias(idx) == <<"TArg", idx>>
ResAlias(idx) == <<"TRes", idx>>
\* "dut->" + arg + "_data"
DataField(arg) == <<arg, "data">>
\* name + "_ldData" + std::to_string(i) and the like
Sig(name, kind, i) == <<name, kind, i>>

\* ------------------------------------------------------- emitExtMemPort
\* one addLoadPort registration (the body of the load loop)
emitLoadPort(e, name, elemT, addrT, i) ==
  IF ~elemT.ok THEN Partial(e, name)
  ELSE IF ~addrT.ok THEN Partial(e, name)
  ELSE Put(e, [op |-> "addLoadPort", port |-> name, i |-> i,
               dataT |-> elemT.tok, addrT |-> addrT.tok,
               data |-> emitHSPortCtor(Sig(name, "ldData", i), TRUE),
               addr |-> emitHSPortCtor(Sig(name, "ldAddr", i), TRUE),
               done |-> emitHSPortCtor(Sig(name, "ldDone", i), FALSE)])

\* one addStorePort registration (the body of the store loop)
emitStorePort(e, name, elemT, addrT, i) ==
  IF ~elemT.ok THEN Partial(e, name)
  ELSE IF ~addrT.ok THEN Partial(e, name)
  ELSE Put(e, [op |-> "addStorePort", port |-> name, i |-> i,
               dataT |-> elemT.tok, addrT |-> addrT.tok,
               data |-> emitHSPortCtor(Sig(name, "stData", i), TRUE),
               addr |-> emitHSPortCtor(Sig(name, "stAddr", i), TRUE),
               done |-> emitHSPortCtor(Sig(name, "stDone", i), FALSE)])

\* for (unsigned i = 0; i < extMemOp.getLdCount(); ++i)
RECURSIVE LoadLoopFrom(_, _, _, _, _, _)
LoadLoopFrom(e, name, elemT, addrT, i, ldCount) ==
  IF i >= ldCount THEN e
  ELSE Bind(emitLoadPort(e, name, elemT, addrT, i),
            LAMBDA e1 : IF e1.res # "ok" THEN e1
                        ELSE LoadLoopFrom(e1, name, elemT, addrT, i + 1,
                                          ldCount))

\* variant: the load indices run from 1 to ldCount
LoadLoop_fromOne(e, name, elemT, addrT, ldCount) ==
  LoadLoopFrom(e, name, elemT, addrT, 1, ldCount + 1)
LoadLoop(e, name, elemT, addrT, ldCount) ==
  LoadLoopFrom(e, name, elemT, addrT, 0, ldCount)

\* for (unsigned i = 0; i < extMemOp.getStCount(); ++i)
RECURSIVE StoreLoopFrom(_, _, _, _, _, _)
StoreLoopFrom(e, name, elemT, addrT, i, stCount) ==
  IF i >= stCount THEN e
  ELSE Bind(emitStorePort(e, name, elemT, addrT, i),
            LAMBDA e1 : IF e1.res # "ok" THEN e1
                        ELSE StoreLoopFrom(e1, name, elemT, addrT, i + 1,
                                           stCount))

StoreLoop(e, name, elemT, addrT, stCount) ==
  StoreLoopFrom(e, name, elemT, addrT, 0, stCount)

\* auto <name> = addInputPort<HandshakeMemoryInterface<elem, addr>>(size)
\* variant: the size is taken from the element width
memInterfaceDecl_sizeIsWidth(name, elemT, addrT, memref) ==
  [op |-> "memif", port |-> name, elemT |-> elemT.tok, addrT |-> addrT.tok,
   size |-> memref.w]
memInterfaceDecl(name, elemT, addrT, memref) ==
  [op |-> "memif", port |-> name, elemT |-> elemT.tok, addrT |-> addrT.tok,
   size |-> memref.len]

\* asserts: whether the build keeps assert() (no NDEBUG)
emitExtMemPort(e, hs, fir, memref, idx, asserts) ==
  LET name == getInputName(fir, idx)
      addrWidth == resolveAddrWidth(getPortElements(fir, idx))
      elemT == emitVerilatorType(getElementType(memref))
      addrT == emitVerilatorTypeFromWidth(addrWidth)
      users == getUsers(hs, idx)
  IN IF asserts /\ addrWidth = 0 THEN Fail(e, "abort")
     ELSE IF ~elemT.ok THEN Partial(e, name)
     ELSE IF ~addrT.ok THEN Partial(e, name)
     ELSE LET e1 == Put(e, memInterfaceDecl(name, elemT, addrT, memref))
          IN IF asserts /\ users.n # 1 THEN Fail(e1, "abort")
             \* *extMemUsers.begin() of an empty use list reads through null
             ELSE IF users.n = 0 THEN Fail(e1, "crash")
             ELSE Bind(LoadLoop(e1, name, elemT, addrT, users.ld),
                       LAMBDA e2 :
                         IF e2.res # "ok" THEN e2
                         ELSE StoreLoop(e2, name, elemT, addrT, users.st))

\* ------------------------------------------- emitInputPort/emitOutputPort
emitInputPort(e, hs, fir, t, idx, asserts) ==
  IF t.k = "memref" THEN emitExtMemPort(e, hs, fir, t, idx, asserts)
  ELSE LET arg == getInputName(fir, idx)
           dataType == ArgAlias(idx)
       IN Put(emitHSTypeAssert(e, dataType, DataField(arg)),
              [op |-> "addInputPort", alias |-> dataType, port |-> arg,
               ctor |-> emitHSPortCtor(arg, TRUE)])

\* variant: the result port is given the argument alias
emitOutputPort_argAlias(e, fo, fir, t, idx) ==
  LET arg == getResName(fo, fir, idx)
      dataType == ArgAlias(idx)
  IN Put(emitHSTypeAssert(e, dataType, DataField(arg)),
         [op |-> "addOutputPort", alias |-> dataType, port |-> arg,
          ctor |-> emitHSPortCtor(arg, TRUE)])
emitOutputPort(e, fo, fir, t, idx) ==
  LET arg == getResName(fo, fir, idx)
      dataType == ResAlias(idx)
  IN Put(emitHSTypeAssert(e, dataType, DataField(arg)),
         [op |-> "addOutputPort", alias |-> dataType, port |-> arg,
          ctor |-> emitHSPortCtor(arg, TRUE)])

\* ---------------------------------------------------------- emitSimulator
\* for (auto &input : enumerate(funcType.getInputs()))
RECURSIVE InputLoop(_, _, _, _, _, _)
InputLoop(e, fo, hs, fir, idx, asserts) ==
  IF idx >= Len(fo.args) THEN e
  ELSE Bind(emitInputPort(e, hs, fir, fo.args[idx + 1], idx, asserts),
            LAMBDA e1 : IF e1.res # "ok" THEN e1
                        ELSE InputLoop(e1, fo, hs, fir, idx + 1, asserts))

\* for (auto &res : enumerate(funcType.getResults()))
RECURSIVE OutputLoop(_, _, _, _)
OutputLoop(e, fo, fir, idx) ==
  IF idx >= Len(fo.results) THEN e
  ELSE Bind(emitOutputPort(e, fo, fir, fo.results[idx + 1], idx),
            LAMBDA e1 : IF e1.res # "ok" THEN e1
                        ELSE OutputLoop(e1, fo, fir, idx + 1))

\* class header, constructor header, clock and reset wiring
simulatorHead(e) ==
  Put(Put(Put(Put(e, [op |-> "classOpen"]), [op |-> "ctorOpen"]),
          [op |-> "clock"]), [op |-> "reset"])

\* inCtrl = ..., outCtrl = ...
\* variant: the output control is not wired
ctrlWiring_noOutCtrl(e, inCtrlName, outCtrlName) ==
  Put(e, [op |-> "inCtrl", port |-> inCtrlName])
ctrlWiring(e, inCtrlName, outCtrlName) ==
  Put(Put(e, [op |-> "inCtrl", port |-> inCtrlName]),
      [op |-> "outCtrl", port |-> outCtrlName])

\* };  };
simulatorTail(e) == Put(Put(e, [op |-> "ctorClose"]), [op |-> "classClose"])

\* variant: the results of the port loops are not tested
emitSimulator_goesOn(e, fo, hs, fir, asserts) ==
  simulatorTail(
    OutputLoop(
      InputLoop(ctrlWiring(simulatorHead(e),
                           getInputName(fir, inCtrlIdx(fo)),
                           getResName(fo, fir, getNumResults(fo))),
                fo, hs, fir, 0, asserts),
      fo, fir, 0))
emitSimulator(e, fo, hs, fir, asserts) ==
  Bind(InputLoop(ctrlWiring(simulatorHead(e),
                            getInputName(fir, inCtrlIdx(fo)),
                            getResName(fo, fir, getNumResults(fo))),
                 fo, hs, fir, 0, asserts),
       LAMBDA e3 :
         IF e3.res # "ok" THEN e3
         ELSE Bind(OutputLoop(e3, fo, fir, 0),
                   LAMBDA e4 : IF e4.res # "ok" THEN e4
                               ELSE simulatorTail(e4)))

\* ------------------------------------------------------------ emitIOTypes
\* BaseWrapper::emitIOTypes: one alias per argument, the TInput tuple, one
\* alias per result, the TOutput tuple
RECURSIVE AliasLoop(_, _, _, _)
AliasLoop(e, types, idx, isArg) ==
  IF idx >= Len(types) THEN e
  ELSE LET t == emitVerilatorType(types[idx + 1])
           name == IF isArg THEN ArgAlias(idx) ELSE ResAlias(idx)
       IN IF ~t.ok THEN Partial(e, name)
          ELSE AliasLoop(Put(e, [op |-> "alias", alias |-> name,
                                 type |-> t.tok]),
                         types, idx + 1, isArg)

emitIOTypes(e, fo) ==
  Bind(AliasLoop(e, fo.args, 0, TRUE),
       LAMBDA e1 :
         IF e1.res # "ok" THEN e1
         ELSE Bind(AliasLoop(Put(e1, [op |-> "TInput"]), fo.results, 0, FALSE),
                   LAMBDA e2 : IF e2.res # "ok" THEN e2
                               ELSE Put(e2, [op |-> "TOutput"])))

\* ----------------------------------------------------------- emitPreamble
\* the stream, the result, and the wrapper's firrtlOp field after the call
\* variant: the TSim alias is written before the simulator class
preambleTail_simAliasFirst(e2, fo, hs, fir, asserts) ==
  Bind(emitSimulator(Put(e2, [op |-> "TSim"]), fo, hs, fir, asserts),
       LAMBDA e3 :
         IF e3.res # "ok"
         THEN [out |-> e3.out, res |-> e3.res, firrtlOp |-> fir,
               reported |-> "none"]
         ELSE [out |-> e3.out, res |-> "success",
               firrtlOp |-> fir, reported |-> "none"])

\* what emitPreamble returns once the model aliases are written and
\* firrtlOp is assigned: fir is the module emitSimulator reads
preambleTail(e2, fo, hs, fir, asserts) ==
  Bind(emitSimulator(e2, fo, hs, fir, asserts),
       LAMBDA e3 :
         IF e3.res # "ok"
         THEN [out |-> e3.out, res |-> e3.res, firrtlOp |-> fir,
               reported |-> "none"]
         ELSE [out |-> Put(e3, [op |-> "TSim"]).out, res |-> "success",
               firrtlOp |-> fir, reported |-> "none"])

emitPreamble(fo, hs, fir, kernel, asserts) ==
  IF kernel.kind = "null"
  THEN \* dyn_cast of a null kernelOp
       [out |-> <<>>, res |-> "crash", firrtlOp |-> fir, reported |-> "none"]
  ELSE IF kernel.kind # "fmodule"
  THEN [out |-> <<>>, res |-> "failure", firrtlOp |-> fir,
        reported |-> "kernel"]
  ELSE Bind(emitIOTypes(Stream0, fo),
            LAMBDA e1 :
              IF e1.res # "ok"
              THEN [out |-> e1.out, res |-> e1.res, firrtlOp |-> fir,
                    reported |-> "none"]
              ELSE \* firrtlOp = handshakeFirMod, then emitSimulator()
                   preambleTail(Put(Put(e1, [op |-> "TModel"]),
                                    [op |-> "SimInterface"]),
                                fo, hs, kernel, asserts))

\* ------------------------------------------------------------------- init
\* HandshakeVerilatorWrapper::init: the result, the operation the diagnostic
\* is attached to, and the two fields after the call.  ub chooses what the
\* call through the null firrtlLikeOp does.
\* variant: fields that are already set are not assigned again
init_keepsFields(hs, fir, ref, kernel, ub) ==
  IF ref.kind = "null"
  THEN [res |-> "crash", reported |-> "none", hsOp |-> hs, firrtlOp |-> fir]
  ELSE IF kernel.kind = "null" \/ ref.kind # "hsfunc"
  THEN [res |-> "failure", reported |-> "ref", hsOp |-> hs, firrtlOp |-> fir]
  ELSE IF kernel.kind # "fmodule"
  THEN [res |-> ub, reported |-> "none", hsOp |-> hs, firrtlOp |-> fir]
  ELSE [res |-> "success", reported |-> "none",
        hsOp |-> IF hs.kind = "null" THEN ref ELSE hs,
        firrtlOp |-> IF fir.kind = "null" THEN kernel ELSE fir]
init(hs, fir, ref, kernel, ub) ==
  IF ref.kind = "null"
  THEN \* refOp->emitError() on a null refOp
       [res |-> "crash", reported |-> "none", hsOp |-> hs, firrtlOp |-> fir]
  ELSE IF kernel.kind = "null"
  THEN [res |-> "failure", reported |-> "ref", hsOp |-> hs, firrtlOp |-> fir]
  ELSE IF ref.kind # "hsfunc"
  THEN [res |-> "failure", reported |-> "ref", hsOp |-> hs, firrtlOp |-> fir]
  ELSE IF kernel.kind # "fmodule"
  THEN \* firrtlLikeOp->emitOpError() on the null result of the dyn_cast
       [res |-> ub, reported |-> "none", hsOp |-> hs, firrtlOp |-> fir]
  ELSE [res |-> "success", reported |-> "none", hsOp |-> ref,
        firrtlOp |-> kernel]

\* ----------------------------------------------------------------- inputs
Scalars == {IntType, FloatType}
MemTypes == {MemRefType(n) : n \in MemLens}
IsMem(t) == t.k = "memref"
HasMem(fo) == \E i \in DOMAIN fo.args : IsMem(fo.args[i])

\* argument lists with at most one memory argument
ArgSeqs ==
  {a \in SeqsUpTo(Scalars \cup MemTypes, MaxArgs) :
     Cardinality({i \in DOMAIN a : IsMem(a[i])}) <= 1}
ResSeqs == SeqsUpTo({IntType}, MaxRes)
FuncOps == {[args |-> a, results |-> r] : a \in ArgSeqs, r \in ResSeqs}

\* the users of a memory argument: none, one external memory, or two
UserDescs ==
  {NoUsers} \cup
  {[n |-> c, ld |-> l, st |-> s] : c \in 1..2, l \in 0..MaxCount,
                                   s \in 0..MaxCount}
ScalarUsers == [n |-> 1, ld |-> 0, st |-> 0]

HsFunc(fo, ud) ==
  [kind |-> "hsfunc",
   users |-> [i \in DOMAIN fo.args |->
                IF IsMem(fo.args[i]) THEN ud ELSE ScalarUsers]]
HsFuncs(fo) ==
  {HsFunc(fo, ud) : ud \in IF HasMem(fo) THEN UserDescs ELSE {ScalarUsers}}

\* the bundle of a memory port whose address signals have the widths ws
MemBundle(ws) ==
  <<[name |-> "ldData", w |-> 32]>> \o
  [i \in 1..Len(ws) |->
     [name |-> IF i = 1 THEN "ldAddr" ELSE "stAddr", w |-> ws[i]]] \o
  <<[name |-> "ldDone", w |-> 0]>>
DataBundle == <<[name |-> "data", w |-> 32]>>
CtrlBundle == <<>>

\* the module of fo: argumentCount + 1 inputs, then resultCount + 1 outputs
FModule(fo, ws) ==
  LET na == Len(fo.args)
      n == na + 1 + Len(fo.results) + 1
  IN [kind |-> "fmodule",
      ports |-> [i \in 1..n |->
        [name |-> <<"port", i - 1>>,
         elems |-> IF i <= na
                   THEN IF IsMem(fo.args[i]) THEN MemBundle(ws) ELSE DataBundle
                   ELSE IF i = na + 1 \/ i = n THEN CtrlBundle
                   ELSE DataBundle]]]
FModules(fo) ==
  {FModule(fo, ws) :
     ws \in IF HasMem(fo) THEN SeqsUpTo(AddrWidths, MaxAddrSigs) ELSE {<<>>}}

RefOps(fo) == HsFuncs(fo) \cup {NullOp, OtherOp}
KernelOps(fo) == FModules(fo) \cup {NullOp, OtherOp}

\* ---------------------------------------------------------------- actions
Init ==
  /\ funcOp \in FuncOps
  /\ refOp \in RefOps(funcOp)
  /\ kernelOp \in KernelOps(funcOp)
  /\ hsOp = NullOp
  /\ firrtlOp = NullOp
  /\ out = <<>>
  /\ result = "none"
  /\ reported = "none"
  /\ pc = "main"
  /\ exitCode = -1
  /\ pending = <<>>
  /\ callNo = 1
  /\ history = <<>>

\* main's return value for a result of wrap; -1 when main never returns
ExitOf(res) == IF res = "success" THEN 0 ELSE IF res = "failure" THEN 1 ELSE -1

\* main up to the call of wrap: a missing reference operation ends the run
MainResolve ==
  /\ pc = "main"
  /\ IF refOp.kind = "null"
     THEN pc' = "done" /\ exitCode' = 1 /\ result' = "failure"
     ELSE pc' = "init" /\ UNCHANGED <<exitCode, result>>
  /\ UNCHANGED <<funcOp, refOp, kernelOp, hsOp, firrtlOp, out, reported,
                 pending, callNo, history>>

\* wrap's call of init; a failure is wrap's (and main's) result
WrapInit ==
  /\ pc = "init"
  /\ \E ub \in {"crash", "failure"} :
       LET r == init(hsOp, firrtlOp, refOp, kernelOp, ub)
       IN /\ hsOp' = r.hsOp
          /\ firrtlOp' = r.firrtlOp
          /\ reported' = r.reported
          /\ IF r.res = "success"
             THEN pc' = "preamble" /\ UNCHANGED <<result, exitCode>>
             ELSE pc' = "done" /\ result' = r.res /\ exitCode' = ExitOf(r.res)
  /\ UNCHANGED <<funcOp, refOp, kernelOp, out, pending, callNo, history>>

\* wrap's call of emitPreamble, and main's return
WrapEmitPreamble ==
  /\ pc = "preamble"
  /\ \E asserts \in BOOLEAN :
       LET r == emitPreamble(funcOp, hsOp, firrtlOp, kernelOp, asserts)
       IN /\ out' = r.out
          /\ result' = r.res
          /\ firrtlOp' = r.firrtlOp
          /\ reported' = r.reported
          /\ exitCode' = ExitOf(r.res)
  /\ pc' = "done"
  /\ UNCHANGED <<funcOp, refOp, kernelOp, hsOp, pending, callNo, history>>

Next == MainResolve \/ WrapInit \/ WrapEmitPreamble

Spec == Init /\ [][Next]_vars

\* ------------------------------------- a driver that reuses wrapper objects
\* The first call runs on a new wrapper object; then a second object is
\* constructed, called once with other inputs and called again with the
\* inputs of the first call.
ReuseUsers == {ud \in UserDescs : ud.n = 1 /\ ud.ld + ud.st <= 1}
ReuseSigs == {ws \in SeqsUpTo(AddrWidths, MaxAddrSigs) : Len(ws) <= 1}
ReuseFuncOps == {fo \in FuncOps : Len(fo.args) <= 1 /\ Len(fo.results) = 0}
ReuseRefOps(fo) ==
  {HsFunc(fo, ud) : ud \in IF HasMem(fo) THEN ReuseUsers ELSE {ScalarUsers}}
  \cup {OtherOp, NullOp}
ReuseKernelOps(fo) ==
  {FModule(fo, ws) : ws \in IF HasMem(fo) THEN ReuseSigs ELSE {<<>>}}
  \cup {OtherOp, NullOp}
ReuseInputs ==
  UNION {{<<fo, ref, kernel>> : ref \in ReuseRefOps(fo),
                                kernel \in ReuseKernelOps(fo)} :
         fo \in ReuseFuncOps}

InitReuse ==
  /\ \E x \in ReuseInputs, y \in ReuseInputs :
       /\ funcOp = x[1] /\ refOp = x[2] /\ kernelOp = x[3]
       /\ pending = <<y, x>>
  /\ hsOp = NullOp
  /\ firrtlOp = NullOp
  /\ out = <<>>
  /\ result = "none"
  /\ reported = "none"
  /\ pc = "init"
  /\ exitCode = -1
  /\ callNo = 1
  /\ history = <<>>

\* the call that has returned is recorded and the next call of wrap starts on
\* a new stream: after the first call on a newly constructed wrapper, after
\* the second on the same wrapper
NextCall ==
  /\ pc = "done"
  /\ pending # <<>>
  /\ result \in {"success", "failure"}
  /\ funcOp' = Head(pending)[1]
  /\ refOp' = Head(pending)[2]
  /\ kernelOp' = Head(pending)[3]
  /\ pending' = Tail(pending)
  /\ callNo' = callNo + 1
  /\ history' = Append(history, [in |-> <<funcOp, refOp, kernelOp>>,
                                  out |-> out, result |-> result])
  /\ IF callNo = 1
     THEN hsOp' = NullOp /\ firrtlOp' = NullOp
     ELSE UNCHANGED <<hsOp, firrtlOp>>
  /\ out' = <<>>
  /\ result' = "none"
  /\ reported' = "none"
  /\ exitCode' = -1
  /\ pc' = "init"

NextReuse == WrapInit \/ WrapEmitPreamble \/ NextCall

SpecReuse == InitReuse /\ [][NextReuse]_vars

\* ------------------------------------------------------------ properties
Generated == pc = "done"
NArgs == Len(funcOp.args)
NRes == Len(funcOp.results)
\* the statements of the output with the given opcode
Idx(name) == {k \in DOMAIN out : out[k].op = name}
SimulatorEntered == Idx("classOpen") # {}
\* the name of port p of the hardware module given to this call
P(p) == kernelOp.ports[p + 1].name
MemArgs == {i \in 0..(NArgs - 1) : IsMem(funcOp.args[i + 1])}
ScalarArgs == {i \in 0..(NArgs - 1) : ~IsMem(funcOp.args[i + 1])}
UsersOf(i) == refOp.users[i + 1]
\* the address signals of port p, in the bundle's signal order
AddrSigs(p) == SelectSeq(kernelOp.ports[p + 1].elems, IsAddrSig)
IsReg(it) == it.op \in {"addLoadPort", "addStorePort"}
Regs == SelectSeq(out, IsReg)
Wires(it) ==
  it.op \in {"inCtrl", "outCtrl", "addInputPort", "addOutputPort", "memif"}
Ctor(prefix, hasData) ==
  [prefix |-> prefix, ready |-> TRUE, valid |-> TRUE, data |-> hasData]
\* memory argument i has one consumer and an address width that resolves
MemArgResolvable(i) ==
  /\ UsersOf(i).n = 1
  /\ AddrSigs(i) # <<>>
  /\ AddrSigs(i)[Len(AddrSigs(i))].w > 0

\* C1 as stated: whenever emitSimulator runs on a module that satisfies the
\* port-count invariant, generation succeeds and the class holds exactly one
\* inCtrl wiring and exactly one outCtrl wiring.
C1_AlwaysSucceeds ==
  (Generated /\ SimulatorEntered) =>
    /\ result = "success"
    /\ Cardinality(Idx("inCtrl")) = 1
    /\ Cardinality(Idx("outCtrl")) = 1

\* C1 as amended: whenever emitSimulator runs, the class holds exactly one
\* inCtrl wiring and exactly one outCtrl wiring, for every argument and result
\* count; generation succeeds when every memory argument has exactly one
\* consumer and an address width that resolves to a supported type (so
\* always when there is no memory argument).
C1_CtrlWiredOnce ==
  (Generated /\ SimulatorEntered) =>
    /\ Cardinality(Idx("inCtrl")) = 1
    /\ Cardinality(Idx("outCtrl")) = 1
    /\ (\A i \in MemArgs : MemArgResolvable(i)) => result = "success"

C1_Witness ==
  /\ Generated /\ result = "success" /\ NArgs = 0 /\ NRes = 0
  /\ Cardinality(Idx("inCtrl")) = 1 /\ Cardinality(Idx("outCtrl")) = 1

\* C2: for a memory argument whose single consumer has L loads and S stores,
\* a successful expansion emits exactly L addLoadPort registrations followed
\* by exactly S addStorePort registrations; the i-th load uses <name>_ldData<i>,
\* <name>_ldAddr<i> and <name>_ldDone<i> (the done port without data), the
\* i-th store <name>_stData<i>, <name>_stAddr<i>, <name>_stDone<i>.
C2_LoadStoreRegistrations ==
  \A i \in MemArgs :
    (Generated /\ result = "success" /\ UsersOf(i).n = 1) =>
      LET L == UsersOf(i).ld
          S == UsersOf(i).st
          name == P(i)
      IN /\ Len(Regs) = L + S
         /\ \A k \in 1..L :
              /\ Regs[k].op = "addLoadPort"
              /\ Regs[k].port = name
              /\ Regs[k].data = Ctor(<<name, "ldData", k - 1>>, TRUE)
              /\ Regs[k].addr = Ctor(<<name, "ldAddr", k - 1>>, TRUE)
              /\ Regs[k].done = Ctor(<<name, "ldDone", k - 1>>, FALSE)
         /\ \A k \in 1..S :
              /\ Regs[L + k].op = "addStorePort"
              /\ Regs[L + k].port = name
              /\ Regs[L + k].data = Ctor(<<name, "stData", k - 1>>, TRUE)
              /\ Regs[L + k].addr = Ctor(<<name, "stAddr", k - 1>>, TRUE)
              /\ Regs[L + k].done = Ctor(<<name, "stDone", k - 1>>, FALSE)

C2_Witness ==
  /\ Generated /\ result = "success"
  /\ \E i \in MemArgs :
       /\ UsersOf(i).n = 1 /\ UsersOf(i).ld = MaxCount /\ UsersOf(i).st >= 1
       /\ Len(Regs) = MaxCount + UsersOf(i).st

\* C3: a memory argument that is expanded successfully has exactly one
\* memory-interface declaration, of size equal to the memory's length, written
\* before every load-port or store-port registration of that argument; with
\* no loads and no stores the declaration is still there and no registration
\* follows it.
C3_MemoryInterfaceDecl ==
  \A i \in MemArgs :
    (Generated /\ result = "success") =>
      LET decls == {k \in Idx("memif") : out[k].port = P(i)}
          regs == {k \in DOMAIN out : IsReg(out[k]) /\ out[k].port = P(i)}
      IN /\ Cardinality(decls) = 1
         /\ \A k \in decls :
              /\ out[k].size = funcOp.args[i + 1].len
              /\ \A j \in regs : k < j
         /\ (UsersOf(i).ld = 0 /\ UsersOf(i).st = 0) => regs = {}

C3_Witness ==
  /\ Generated /\ result = "success"
  /\ \E i \in MemArgs :
       /\ UsersOf(i).ld = 0 /\ UsersOf(i).st = 0
       /\ \E k \in Idx("memif") : out[k].port = P(i)

\* C4: when a memory argument (whose address width resolves) has zero or more
\* than one consumer, generation fails and nothing of that memory argument,
\* not even its memory-interface declaration, has been written.
C4_NoOutputOnBadConsumers ==
  \A i \in MemArgs :
    (/\ Generated /\ SimulatorEntered
     /\ UsersOf(i).n # 1
     /\ AddrSigs(i) # <<>> /\ AddrSigs(i)[Len(AddrSigs(i))].w > 0) =>
      /\ result = "failure"
      /\ ~ \E k \in Idx("memif") : out[k].port = P(i)

\* C5: the first sub-step of generation that fails aborts it: the failure is
\* the result handed to the caller (main returns 1), the statement the
\* failing step left unfinished is the last thing written (no later argument
\* port, result port, class terminator or TSim alias follows), and main
\* returns 0 only for a complete output.
C5_FirstFailureAborts ==
  /\ (Generated /\ result = "failure") =>
       /\ exitCode = 1
       /\ Idx("TSim") = {} /\ Idx("classClose") = {} /\ Idx("ctorClose") = {}
       /\ out # <<>> => Idx("partial") = {Len(out)}
  /\ exitCode = 0 =>
       /\ result = "success"
       /\ Idx("partial") = {}
       /\ Idx("TSim") = {Len(out)}

C5_Witness ==
  /\ Generated /\ result = "failure" /\ SimulatorEntered
  /\ out[Len(out)].op = "partial"
  /\ \E i \in MemArgs : i + 1 < NArgs /\ out[Len(out)].port = P(i)
  /\ NRes >= 1

\* C6 as stated: the address type of the memory interface and of every load
\* and store address port is that of the first ldAddr/stAddr signal of the
\* bundle.
C6_FirstAddrSignal ==
  \A i \in MemArgs : \A k \in DOMAIN out :
    (SimulatorEntered /\ (out[k].op = "memif" \/ IsReg(out[k]))
     /\ out[k].port = P(i)) =>
      out[k].addrT = <<"uint", AddrSigs(i)[1].w>>

\* C6 as amended: the address type of the memory interface and of every load
\* and store address port is that of the last ldAddr/stAddr signal in the
\* bundle's signal order.
C6_LastAddrSignal ==
  \A i \in MemArgs : \A k \in DOMAIN out :
    (SimulatorEntered /\ (out[k].op = "memif" \/ IsReg(out[k]))
     /\ out[k].port = P(i)) =>
      out[k].addrT = <<"uint", AddrSigs(i)[Len(AddrSigs(i))].w>>

C6_Witness ==
  /\ Generated /\ result = "success"
  /\ \E i \in MemArgs :
       /\ Len(AddrSigs(i)) >= 2
       /\ AddrSigs(i)[1].w # AddrSigs(i)[Len(AddrSigs(i))].w
       /\ \E k \in Idx("memif") : out[k].port = P(i)
       /\ \E k \in Idx("addLoadPort") : out[k].port = P(i)
       /\ \E k \in Idx("addStorePort") : out[k].port = P(i)

\* C7: argument i is wired to port i, the input control to port
\* argumentCount, result j to port argumentCount+1+j and the output control to
\* port argumentCount+1+resultCount; no index outside the port list is
\* resolved, and a successful generation wires every port of the module by
\* exactly one statement group.
C7_PortIndices ==
  (Generated /\ SimulatorEntered) =>
    /\ \A k \in DOMAIN out :
         /\ out[k].op = "inCtrl" => out[k].port = P(NArgs)
         /\ out[k].op = "outCtrl" => out[k].port = P(NArgs + 1 + NRes)
         /\ out[k].op = "addInputPort" =>
              \E i \in ScalarArgs :
                out[k].alias = <<"TArg", i>> /\ out[k].port = P(i)
         /\ (out[k].op = "memif" \/ IsReg(out[k])) =>
              \E i \in MemArgs : out[k].port = P(i)
         /\ out[k].op = "addOutputPort" =>
              \E j \in 0..(NRes - 1) :
                /\ out[k].alias = <<"TRes", j>>
                /\ out[k].port = P(NArgs + 1 + j)
         /\ (Wires(out[k]) \/ IsReg(out[k])) => out[k].port # NoPort
    /\ result = "success" =>
         \A p \in 0..(Len(kernelOp.ports) - 1) :
           Cardinality({k \in DOMAIN out :
                          Wires(out[k]) /\ out[k].port = P(p)}) = 1

C7_Witness ==
  /\ Generated /\ result = "success" /\ NArgs >= 2 /\ NRes >= 1
  /\ MemArgs # {} /\ ScalarArgs # {}
  /\ \E k \in Idx("outCtrl") : out[k].port = P(NArgs + 1 + NRes)

\* C9: the input-port registration of non-memory argument i uses the alias
\* TArg<i> and the output-port registration of result j the alias TRes<j>,
\* the alias declared for that position; the statement right before each
\* registration is the static assertion between that alias and the data field
\* of the same hardware port.
C9_AliasAndAssert ==
  Generated =>
    /\ \A k \in Idx("addInputPort") :
         \E i \in ScalarArgs :
           /\ out[k].alias = <<"TArg", i>>
           /\ out[k].ctor = Ctor(P(i), TRUE)
           /\ \E d \in Idx("alias") : out[d].alias = <<"TArg", i>> /\ d < k
           /\ k > 1
           /\ out[k - 1] = [op |-> "static_assert", alias |-> <<"TArg", i>>,
                            value |-> <<P(i), "data">>]
    /\ \A k \in Idx("addOutputPort") :
         \E j \in 0..(NRes - 1) :
           /\ out[k].alias = <<"TRes", j>>
           /\ out[k].ctor = Ctor(P(NArgs + 1 + j), TRUE)
           /\ \E d \in Idx("alias") : out[d].alias = <<"TRes", j>> /\ d < k
           /\ k > 1
           /\ out[k - 1] = [op |-> "static_assert", alias |-> <<"TRes", j>>,
                            value |-> <<P(NArgs + 1 + j), "data">>]
    /\ result = "success" =>
         /\ \A i \in ScalarArgs :
              Cardinality({k \in Idx("addInputPort") :
                             out[k].alias = <<"TArg", i>>}) = 1
         /\ \A j \in 0..(NRes - 1) :
              Cardinality({k \in Idx("addOutputPort") :
                             out[k].alias = <<"TRes", j>>}) = 1

C9_Witness ==
  /\ Generated /\ result = "success" /\ NRes >= 1
  /\ Cardinality(ScalarArgs) >= 2
  /\ Idx("addInputPort") # {} /\ Idx("addOutputPort") # {}

\* C10: when init is given a reference that is not a handshake function, or a
\* hardware construct that is absent or not module-like, it returns a failure
\* whose diagnostic names the offending construct (the reference when the
\* hardware construct is absent), and the wrapper's hsOp and firrtlOp fields
\* stay as they were.
C10_InitFailsCleanly ==
  (/\ Generated /\ refOp.kind # "null"
   /\ ~(refOp.kind = "hsfunc" /\ kernelOp.kind = "fmodule")) =>
    /\ result = "failure"
    /\ reported = IF refOp.kind # "hsfunc" \/ kernelOp.kind = "null"
                  THEN "ref" ELSE "kernel"
    /\ hsOp = NullOp /\ firrtlOp = NullOp

\* C8: a call of wrap that returns, made on a wrapper object that has already
\* been called with other inputs, has the output and the result of the call
\* a new wrapper object made with the same inputs.
C8_Deterministic ==
  (Generated /\ callNo = 3 /\ result \in {"success", "failure"}) =>
    /\ <<funcOp, refOp, kernelOp>> = history[1].in
    /\ out = history[1].out
    /\ result = history[1].result

C8_Witness ==
  /\ Generated /\ callNo = 3 /\ result = "success"
  /\ history[2].result = "success"
  /\ history[2].in # history[1].in
  /\ HasMem(funcOp) /\ HasMem(history[2].in[1])
  /\ history[2].out # out
  /\ out = history[1].out

\* the place of an emitted item in the order of generation
EmissionStage(it) ==
  CASE it.op \in {"alias", "TInput", "TOutput"} -> 1
    [] it.op = "TModel" -> 2
    [] it.op = "SimInterface" -> 3
    [] it.op \in {"classOpen", "ctorOpen"} -> 4
    [] it.op \in {"clock", "reset"} -> 5
    [] it.op = "inCtrl" -> 6
    [] it.op = "outCtrl" -> 7
    [] it.op \in {"addInputPort", "memif", "addLoadPort", "addStorePort"} -> 8
    [] it.op = "static_assert" -> IF it.alias[1] = "TArg" THEN 8 ELSE 9
    [] it.op = "addOutputPort" -> 9
    [] it.op \in {"ctorClose", "classClose"} -> 10
    [] it.op = "TSim" -> 11
    [] OTHER -> 0

\* the argument or result position an item of a statement group belongs to
EmissionPos(it) ==
  IF it.op \in {"static_assert", "addInputPort", "addOutputPort"}
  THEN it.alias[2]
  ELSE CHOOSE i \in MemArgs : P(i) = it.port

\* the type aliases in the order they are written
AliasItems == SelectSeq(out, LAMBDA it : EmissionStage(it) = 1)

====
